---- MODULE Spec2Model ----
(***************************************************************************)
(* Model of the image upload service of src/models/image.js:               *)
(*   POST /api/images/upload   watermark each file, upload it to S3, then  *)
(*                             $push the S3 locations into the product's   *)
(*                             document (upsert)                           *)
(*   GET  /api/images/:name    findOne by productName                      *)
(* One step of the model is one turn of the Node event loop: the           *)
(* completion of one asynchronous operation together with every            *)
(* continuation of the handler that runs because of it.                    *)
(***************************************************************************)
EXTENDS Integers, Sequences, FiniteSets, TLC

\* ---------------------------------------------------------------- bounds
NumReqs == 2        \* upload requests received in one behaviour
MaxFiles == 2       \* files per modelled request (multer caps at 10)
MaxInFlight == 3    \* files of all the requests of one behaviour together

\* ---------------------------------------------------------------- inputs
Undefined == "<undefined>"                \* a field absent from req.body
ProductNames == {"ring"}                  \* non-empty product names
FileNames == <<"a.jpg", "b.jpg">>         \* file.originalname
File(i) == [originalname |-> FileNames[((i - 1) % Len(FileNames)) + 1]]
\* req.files of 0..MaxFiles files: the files a.jpg, b.jpg, a.jpg, ...
FileLists == {[i \in 1..k |-> File(i)] : k \in 0..MaxFiles}
\* the requests the validation refuses, one of each kind, and the valid ones
Inputs ==
  {[body |-> [productName |-> n], files |-> fs] :
     n \in ProductNames, fs \in FileLists}
  \cup {[body |-> [productName |-> n], files |-> <<File(1)>>] : n \in {"", Undefined}}
  \cup {[body |-> [productName |-> n]] : n \in ProductNames}
Timestamps == {0, 1}                      \* values Date.now() returns
Bucket == "bucket"                        \* process.env.AWS_S3_BUCKET_NAME

VARIABLES
  reqs,       \* the upload requests received so far: req.body, req.files
  pc,         \* where each upload handler is suspended
  uploads,    \* per request, the uploadPromises (one per file)
  imageUrls,  \* per request, imageUrls once the join has fulfilled
  dbOp,       \* per request, the outcome of its findOneAndUpdate
  resp,       \* per request, the responses sent with res.status().json()
  objects,    \* keys of the objects stored in the S3 bucket
  db,         \* the Image collection, in natural order
  getResp     \* the response of the GET served by this step, if any

vars == <<reqs, pc, uploads, imageUrls, dbOp, resp, objects, db, getResp>>

Requests == 1..Len(reqs)

\* the files received so far, over all requests
Received == {<<r, i>> \in Requests \X (1..MaxFiles) : i <= Len(uploads[r])}
NoGet == [status |-> 0]

\* ------------------------------------------------------- pure functions
\* JavaScript truthiness of req.body.productName
Falsy(v) == v = Undefined \/ v = ""

HasFiles(rq) == "files" \in DOMAIN rq

\* a validation that forgets the length test
InvalidNoLength(rq) ==
  \/ Falsy(rq.body.productName)
  \/ ~HasFiles(rq)

\* the validation of the upload handler: TRUE when the request is refused
Invalid(rq) ==
  \/ Falsy(rq.body.productName)
  \/ ~HasFiles(rq)
  \/ Len(rq.files) = 0

\* params.Key of one file, t being the value of Date.now()
Key(t, file) == "products/" \o ToString(t) \o "-" \o file.originalname

\* result.Location that s3.upload resolves with
Location(key) == "https://" \o Bucket \o ".s3.amazonaws.com/" \o key

\* Promise.allSettled in the place of Promise.all: waits for every promise
\* and never rejects
PromiseAllSettled(ps) ==
  IF \A i \in 1..Len(ps) : ps[i].st \in {"fulfilled", "rejected"} THEN "fulfilled"
  ELSE "pending"

\* Promise.any in the place of Promise.all: fulfilled with the first
\* fulfilled promise
PromiseAny(ps) ==
  IF \E i \in 1..Len(ps) : ps[i].st = "fulfilled" THEN "fulfilled"
  ELSE IF \A i \in 1..Len(ps) : ps[i].st = "rejected" THEN "rejected"
  ELSE "pending"

\* Promise.all over the uploadPromises: rejected as soon as one promise is
\* rejected, fulfilled when all are fulfilled, pending otherwise
PromiseAll(ps) ==
  IF \E i \in 1..Len(ps) : ps[i].st = "rejected" THEN "rejected"
  ELSE IF \A i \in 1..Len(ps) : ps[i].st = "fulfilled" THEN "fulfilled"
  ELSE "pending"

\* only the first result is kept
ImageUrlsFirst(ps) == [i \in 1..(IF Len(ps) > 0 THEN 1 ELSE 0) |-> ps[i].Location]

\* s3Results.map((result) => result.Location)
ImageUrls(ps) == [i \in 1..Len(ps) |-> ps[i].Location]

\* $set in the place of $push: the list is overwritten
SetJewellery(old, urls) == urls

\* { $push: { Jewellery: { $each: urls } } }
PushEach(old, urls) == old \o urls

\* the responses of a request after one more res.status(s).json(body)
Send(rs, r) == Append(rs, r)

ValidationError(rs) ==
  Send(rs, [status |-> 400, error |-> "Product name and at least one image are required."])

\* the catch of the join without its return: the handler runs on and
\* answers a second time from the outer catch
CatchUploadErrorNoReturn(rs) ==
  Send(Send(rs, [status |-> 500, error |-> "S3 upload failed. Check server logs for details."]),
       [status |-> 500, error |-> "Failed to upload and save images. Check server logs for details."])

CatchUploadError(rs) ==
  Send(rs, [status |-> 500, error |-> "S3 upload failed. Check server logs for details."])

CatchDbError(rs) ==
  Send(rs, [status |-> 500, error |-> "Failed to save image URLs to the database."])

Created(rs, product) ==
  Send(rs, [status |-> 201, message |-> "Images uploaded and saved successfully!",
            product |-> product])

\* the documents of the collection that match { productName: name }
Matching(name) == {i \in 1..Len(db) : db[i].productName = name}

\* ------------------------------------------------------------ the handler
\* The continuation of the upload handler of request r behind
\* `await Promise.all(uploadPromises)`, ps being the promises of r after
\* this step.  It runs in the step that settles the join and in no other.
Join(r, at, ps) ==
  LET out == PromiseAll(ps) IN
  IF at # "joining" \/ out = "pending"
  THEN /\ pc' = [pc EXCEPT ![r] = at]
       /\ imageUrls' = imageUrls
       /\ resp' = resp
  ELSE IF out = "rejected"
  THEN /\ pc' = [pc EXCEPT ![r] = "done"]
       /\ imageUrls' = imageUrls
       /\ resp' = [resp EXCEPT ![r] = CatchUploadError(@)]
  ELSE /\ pc' = [pc EXCEPT ![r] = "persisting"]
       /\ imageUrls' = [imageUrls EXCEPT ![r] = ImageUrls(ps)]
       /\ resp' = resp

Init ==
  /\ reqs = <<>>
  /\ pc = <<>>
  /\ uploads = <<>>
  /\ imageUrls = <<>>
  /\ dbOp = <<>>
  /\ resp = <<>>
  /\ objects = {}
  /\ db = <<>>
  /\ getResp = NoGet

\* POST /api/images/upload arrives: the handler runs up to its first await.
\* A refused request is answered 400; otherwise one promise per file is
\* created, each suspended in addWatermarkAndSave.
Upload(rq) ==
  /\ Len(reqs) < NumReqs
  /\ HasFiles(rq) => Cardinality(Received) + Len(rq.files) <= MaxInFlight
  /\ LET r == Len(reqs) + 1 IN
     /\ reqs' = Append(reqs, rq)
     /\ dbOp' = Append(dbOp, "none")
     /\ IF Invalid(rq)
        THEN /\ uploads' = Append(uploads, <<>>)
             /\ pc' = Append(pc, "done")
             /\ imageUrls' = Append(imageUrls, <<>>)
             /\ resp' = Append(resp, ValidationError(<<>>))
        ELSE LET ps == [i \in 1..Len(rq.files) |->
                          [st |-> "render", Key |-> "", Location |-> "undefined"]]
                 out == PromiseAll(ps)
             IN /\ uploads' = Append(uploads, ps)
                /\ pc' = Append(pc, IF out = "fulfilled" THEN "persisting" ELSE "joining")
                /\ imageUrls' = Append(imageUrls, IF out = "fulfilled" THEN ImageUrls(ps) ELSE <<>>)
                /\ resp' = Append(resp, <<>>)
  /\ getResp' = NoGet
  /\ UNCHANGED <<objects, db>>

\* addWatermarkAndSave resolves for file i of request r: params is built,
\* Date.now() is read for the key, and s3.upload is started.  Date.now() is
\* the wall clock: nothing orders two readings of it.
RenderOk(r, i) ==
  /\ uploads[r][i].st = "render"
  /\ \E t \in Timestamps :
       /\ LET ps == [uploads[r] EXCEPT ![i] =
                       [@ EXCEPT !.st = "upload", !.Key = Key(t, reqs[r].files[i])]]
          IN /\ uploads' = [uploads EXCEPT ![r] = ps]
             /\ Join(r, pc[r], ps)
  /\ getResp' = NoGet
  /\ UNCHANGED <<reqs, dbOp, objects, db>>

\* addWatermarkAndSave throws for file i of request r
RenderFail(r, i) ==
  /\ uploads[r][i].st = "render"
  /\ LET ps == [uploads[r] EXCEPT ![i].st = "rejected"]
     IN /\ uploads' = [uploads EXCEPT ![r] = ps]
        /\ Join(r, pc[r], ps)
  /\ getResp' = NoGet
  /\ UNCHANGED <<reqs, dbOp, objects, db>>

\* s3.upload of file i of request r stores the object and resolves
S3UploadOk(r, i) ==
  /\ uploads[r][i].st = "upload"
  /\ objects' = objects \cup {uploads[r][i].Key}
  /\ LET ps == [uploads[r] EXCEPT ![i] =
                  [@ EXCEPT !.st = "fulfilled", !.Location = Location(uploads[r][i].Key)]]
     IN /\ uploads' = [uploads EXCEPT ![r] = ps]
        /\ Join(r, pc[r], ps)
  /\ getResp' = NoGet
  /\ UNCHANGED <<reqs, dbOp, db>>

\* s3.upload of file i of request r is rejected by the object store
S3UploadFail(r, i) ==
  /\ uploads[r][i].st = "upload"
  /\ LET ps == [uploads[r] EXCEPT ![i].st = "rejected"]
     IN /\ uploads' = [uploads EXCEPT ![r] = ps]
        /\ Join(r, pc[r], ps)
  /\ getResp' = NoGet
  /\ UNCHANGED <<reqs, dbOp, objects, db>>

\* findOneAndUpdate of request r finds a document of that name: the $push
\* is applied to it atomically and the handler answers 201 with the
\* updated document ({ new: true })
FindOneAndUpdate(r) ==
  /\ pc[r] = "persisting"
  /\ \E d \in Matching(reqs[r].body.productName) :
       LET updatedProduct == [db[d] EXCEPT !.Jewellery = PushEach(@, imageUrls[r])]
       IN /\ db' = [db EXCEPT ![d] = updatedProduct]
          /\ resp' = [resp EXCEPT ![r] = Created(@, updatedProduct)]
  /\ dbOp' = [dbOp EXCEPT ![r] = "updated"]
  /\ pc' = [pc EXCEPT ![r] = "done"]
  /\ getResp' = NoGet
  /\ UNCHANGED <<reqs, uploads, imageUrls, objects>>

\* findOneAndUpdate of request r finds no document of that name and turns
\* to the upsert.  The schema declares no unique index on productName, so
\* nothing orders this query against the insert of another request.
UpsertQuery(r) ==
  /\ pc[r] = "persisting"
  /\ Matching(reqs[r].body.productName) = {}
  /\ pc' = [pc EXCEPT ![r] = "upserting"]
  /\ getResp' = NoGet
  /\ UNCHANGED <<reqs, uploads, imageUrls, dbOp, resp, objects, db>>

\* the upsert of request r inserts its new document; the handler answers
\* 201 with it
UpsertInsert(r) ==
  /\ pc[r] = "upserting"
  /\ LET updatedProduct == [productName |-> reqs[r].body.productName,
                            Jewellery |-> PushEach(<<>>, imageUrls[r])]
     IN /\ db' = Append(db, updatedProduct)
        /\ resp' = [resp EXCEPT ![r] = Created(@, updatedProduct)]
  /\ dbOp' = [dbOp EXCEPT ![r] = "upserted"]
  /\ pc' = [pc EXCEPT ![r] = "done"]
  /\ getResp' = NoGet
  /\ UNCHANGED <<reqs, uploads, imageUrls, objects>>

\* a handler that deletes the uploaded objects when the upsert fails
DbErrorRollback(r) ==
  /\ pc[r] \in {"persisting", "upserting"}
  /\ dbOp' = [dbOp EXCEPT ![r] = "error"]
  /\ resp' = [resp EXCEPT ![r] = CatchDbError(@)]
  /\ pc' = [pc EXCEPT ![r] = "done"]
  /\ objects' = objects \ {uploads[r][i].Key : i \in 1..Len(uploads[r])}
  /\ getResp' = NoGet
  /\ UNCHANGED <<reqs, uploads, imageUrls, db>>

\* findOneAndUpdate of request r rejects: the handler answers 500
DbError(r) ==
  /\ pc[r] \in {"persisting", "upserting"}
  /\ dbOp' = [dbOp EXCEPT ![r] = "error"]
  /\ resp' = [resp EXCEPT ![r] = CatchDbError(@)]
  /\ pc' = [pc EXCEPT ![r] = "done"]
  /\ getResp' = NoGet
  /\ UNCHANGED <<reqs, uploads, imageUrls, objects, db>>

\* GET /api/images/:productName finds a document
GetFound(name) ==
  /\ \E d \in Matching(name) :
       getResp' = [productName |-> name, status |-> 200, body |-> db[d]]
  /\ UNCHANGED <<reqs, pc, uploads, imageUrls, dbOp, resp, objects, db>>

\* GET /api/images/:productName finds no document
GetNotFound(name) ==
  /\ Matching(name) = {}
  /\ getResp' = [productName |-> name, status |-> 404, error |-> "Product not found"]
  /\ UNCHANGED <<reqs, pc, uploads, imageUrls, dbOp, resp, objects, db>>

\* GET /api/images/:productName, findOne rejects
GetError(name) ==
  /\ getResp' = [productName |-> name, status |-> 500, error |-> "Failed to fetch images"]
  /\ UNCHANGED <<reqs, pc, uploads, imageUrls, dbOp, resp, objects, db>>

Next ==
  \/ \E rq \in Inputs : Upload(rq)
  \/ \E r \in Requests : \E i \in 1..Len(uploads[r]) : RenderOk(r, i)
  \/ \E r \in Requests : \E i \in 1..Len(uploads[r]) : RenderFail(r, i)
  \/ \E r \in Requests : \E i \in 1..Len(uploads[r]) : S3UploadOk(r, i)
  \/ \E r \in Requests : \E i \in 1..Len(uploads[r]) : S3UploadFail(r, i)
  \/ \E r \in Requests : FindOneAndUpdate(r)
  \/ \E r \in Requests : UpsertQuery(r)
  \/ \E r \in Requests : UpsertInsert(r)
  \/ \E r \in Requests : DbError(r)

\* the upload route alone
Spec == Init /\ [][Next]_vars

NextGet ==
  \/ Next
  \/ \E n \in ProductNames : GetFound(n)
  \/ \E n \in ProductNames : GetNotFound(n)
  \/ \E n \in ProductNames : GetError(n)

\* the upload route and the fetch route
SpecGet == Init /\ [][NextGet]_vars

\* ------------------------------------------------- notions of the claims
Range(q) == {q[i] : i \in 1..Len(q)}

Status(r) == {resp[r][k].status : k \in 1..Len(resp[r])}
Name(r) == reqs[r].body.productName
InFlight(r) == \E i \in 1..Len(uploads[r]) : uploads[r][i].st \in {"render", "upload"}
Rejected(r) == \E i \in 1..Len(uploads[r]) : uploads[r][i].st = "rejected"
AllFulfilled(r) == \A i \in 1..Len(uploads[r]) : uploads[r][i].st = "fulfilled"
Wrote(r) == dbOp[r] \in {"updated", "upserted"}

\* the locations the uploader returned for request r, in submission order
Returned(r) == [i \in 1..Len(uploads[r]) |-> uploads[r][i].Location]

\* the occurrences of loc in the documents named n
StoredAt(n, loc) ==
  {<<d, i>> \in (1..Len(db)) \X (1..NumReqs * MaxFiles) :
     /\ db[d].productName = n
     /\ i <= Len(db[d].Jewellery)
     /\ db[d].Jewellery[i] = loc}

\* the occurrences of loc in the batches of the requests of R named n
BatchAt(R, n, loc) ==
  {<<r, i>> \in R \X (1..MaxFiles) :
     /\ Name(r) = n
     /\ i <= Len(uploads[r])
     /\ Returned(r)[i] = loc}

Locations ==
  UNION {Range(db[d].Jewellery) : d \in 1..Len(db)}
    \cup UNION {Range(Returned(r)) : r \in Requests}

\* the request has no file, or an empty or absent product name
NoFilesOrNoName(rq) ==
  \/ ~HasFiles(rq)
  \/ HasFiles(rq) /\ rq.files = <<>>
  \/ rq.body.productName \in {"", Undefined}

Answered201 == {r \in Requests : 201 \in Status(r)}
Writers == {r \in Requests : Wrote(r)}

\* C1: no update is lost: every location of every upload request answered
\* 201 for a product name is held by the stored record(s) of that name, as
\* many times as these requests returned it.
C1_NoLostUpdate ==
  \A n \in ProductNames : \A loc \in Locations :
    Cardinality(StoredAt(n, loc)) >= Cardinality(BatchAt(Answered201, n, loc))

\* two upload requests of one name were in the store layer one after the
\* other, the second appending to the record the first left
C1_Witness ==
  \E r1, r2 \in Answered201 :
    /\ r1 # r2 /\ Name(r1) = Name(r2)
    /\ dbOp[r2] = "updated"
    /\ \E d \in 1..Len(db) : Len(db[d].Jewellery) > Len(uploads[r2])

\* C2: the collection holds at most one record per productName.
C2_UniqueProductName ==
  \A d1, d2 \in 1..Len(db) : db[d1].productName = db[d2].productName => d1 = d2

\* C3: a request one of whose uploads was rejected performs no
\* document-store write, leaves the records without its batch, and is
\* answered 500 (once).
C3_AllOrNothing ==
  /\ \A r \in Requests :
       Rejected(r) =>
         /\ dbOp[r] = "none"
         /\ pc[r] = "done"
         /\ Len(resp[r]) = 1 /\ Status(r) = {500}
  /\ \A n \in ProductNames : \A loc \in Locations :
       Cardinality(StoredAt(n, loc)) =
         Cardinality(BatchAt({r \in Requests : ~Rejected(r) /\ Wrote(r)}, n, loc))

\* the object store rejected one file of a request after storing another
C3_Witness ==
  \E r \in Requests : \E i, j \in 1..Len(uploads[r]) :
    /\ uploads[r][i].st = "rejected" /\ uploads[r][i].Key # ""
    /\ uploads[r][j].st = "fulfilled" /\ uploads[r][j].Key \in objects
    /\ Status(r) = {500}

\* C4: a request without files or without a product name is answered 400
\* and starts no render, no s3.upload and no findOneAndUpdate.
C4_ValidationNoWrites ==
  \A r \in Requests :
    NoFilesOrNoName(reqs[r]) =>
      /\ Len(resp[r]) = 1 /\ Status(r) = {400}
      /\ uploads[r] = <<>>
      /\ dbOp[r] = "none"
      /\ pc[r] = "done"

\* a named request with an empty file list and one with files and an empty
\* or absent name were refused
C4_Witness ==
  /\ \E r \in Requests :
       /\ ~Falsy(Name(r)) /\ HasFiles(reqs[r]) /\ Len(reqs[r].files) = 0
       /\ Status(r) = {400}
  /\ \E r \in Requests :
       /\ Falsy(Name(r)) /\ HasFiles(reqs[r]) /\ Len(reqs[r].files) > 0
       /\ Status(r) = {400}

\* C5: a valid request of N files whose product name has no record when
\* its upsert looks for one is answered 201 with a product of exactly N
\* entries, the N locations the uploader returned for it, in order.
C5_FreshUpload ==
  \A r \in Requests :
    dbOp[r] = "upserted" =>
      /\ Len(resp[r]) = 1 /\ Status(r) = {201}
      /\ resp[r][1].product.productName = Name(r)
      /\ Len(resp[r][1].product.Jewellery) = Len(reqs[r].files)
      /\ Len(reqs[r].files) \in 1..10
      /\ resp[r][1].product.Jewellery = Returned(r)
      /\ \A i \in 1..Len(uploads[r]) : uploads[r][i].Key \in objects

\* a request of two files with two different locations created the record
C5_Witness ==
  \E r \in Requests :
    /\ dbOp[r] = "upserted"
    /\ Len(reqs[r].files) = 2
    /\ Returned(r)[1] # Returned(r)[2]

\* C6: when exactly two uploads of one product name have succeeded, a
\* record of that name holds the concatenation of their two batches.
C6_Concatenation ==
  \A r1, r2 \in Answered201 :
    (/\ r1 # r2 /\ Name(r1) = Name(r2)
     /\ \A r3 \in Writers : Name(r3) = Name(r1) => r3 \in {r1, r2})
    => \E d \in Matching(Name(r1)) :
         \/ db[d].Jewellery = Returned(r1) \o Returned(r2)
         \/ db[d].Jewellery = Returned(r2) \o Returned(r1)

\* C7: a fetch answers 404 only when no record of the name exists, and
\* 200 with exactly the locations appended by the successful uploads of
\* that name so far.
C7_GetExact ==
  /\ getResp.status = 404 => Matching(getResp.productName) = {}
  /\ getResp.status = 200 =>
       /\ getResp.body.productName = getResp.productName
       /\ \A loc \in Locations :
            Cardinality({i \in 1..Len(getResp.body.Jewellery) : getResp.body.Jewellery[i] = loc})
              = Cardinality(BatchAt(Writers, getResp.productName, loc))

C9_NoRollback ==
  /\ \A r \in Requests :
       dbOp[r] = "error" =>
         /\ AllFulfilled(r)
         /\ resp[r] = CatchDbError(<<>>)
         /\ \A i \in 1..Len(uploads[r]) : uploads[r][i].Key \in objects
  /\ \A n \in ProductNames : \A loc \in Locations :
       Cardinality(StoredAt(n, loc)) = Cardinality(BatchAt(Writers, n, loc))

\* an object of a request whose upsert failed is referenced by no record
C9_Witness ==
  \E r \in Requests : \E i \in 1..Len(uploads[r]) :
    /\ dbOp[r] = "error"
    /\ uploads[r][i].Key \in objects
    /\ \A d \in 1..Len(db) : uploads[r][i].Location \notin Range(db[d].Jewellery)

\* C10: a request that went through the handler has sent at most one
\* response, exactly one when the handler is over, of status 400, 500 or
\* 201, and 201 only after its upsert succeeded.
C10_OneResponse ==
  \A r \in Requests :
    /\ Len(resp[r]) <= 1
    /\ pc[r] = "done" <=> Len(resp[r]) = 1
    /\ Status(r) \subseteq {400, 500, 201}
    /\ 201 \in Status(r) => Wrote(r)
    /\ 400 \in Status(r) <=> NoFilesOrNoName(reqs[r])

\* every file of a request of two failed, and it was answered once
C10_Witness ==
  \E r \in Requests :
    /\ Len(uploads[r]) = 2
    /\ \A i \in 1..2 : uploads[r][i].st = "rejected"
    /\ Len(resp[r]) = 1
====
